---------------------------- MODULE Spec2Model ----------------------------
(***************************************************************************)
(* The document/version engine of json-versioning-backend                  *)
(* (src/src/controllers/documentController.ts, lines 1-433, with the       *)
(* mongoose schemas of src/src/models/Document.ts and src/unnamed/part_001).*)
(*                                                                         *)
(* The database holds two collections.  documents and versions are         *)
(* sequences in insertion order; a record's _id is its position, so the    *)
(* order of versions is their createdAt order.  Nothing in the controller  *)
(* deletes a record.                                                       *)
(*                                                                         *)
(* Every handler is an async function: it runs without interruption up to  *)
(* an await of a database operation, and other requests are served while   *)
(* the operation is pending.  A handler is therefore one action per        *)
(* database operation whose outcome depends on, or changes, mutable data;  *)
(* the code between two such operations belongs to the action of the       *)
(* operation that follows it (it only touches the request's own locals).   *)
(* A findById whose result is used only for fields that never change       *)
(* (userId, documentId, existence) is folded into the next operation.      *)
(*                                                                         *)
(* doc.save() / version.save() send an update of the paths the handler     *)
(* assigned (mongoose writes modified paths only), after validating the    *)
(* schema; they are modelled as an update of exactly the assigned field.   *)
(***************************************************************************)
EXTENDS Integers, Sequences, FiniteSets, TLC

(***************************************************************************)
(* Bounds of the model.                                                    *)
(***************************************************************************)
MaxDocs == 2
MaxVersions == 3
\* Documents of the concurrent specification.
ConcMaxDocs == 1

Procs == {"p1", "p2"}
Users == {"alice", "bob"}

\* Strings a request may carry as content.
Strings == {"", "hello", "{\"a\":1}"}
\* Strings a request may carry as name.
Names == {"notes", " "}

(***************************************************************************)
(* Request values.  A JSON body field is a typed value: typeof decides the *)
(* validation.  Every val is a string so that values stay comparable.      *)
(***************************************************************************)
StringValue(s) == [type |-> "string", val |-> s]
BooleanValue(b) == [type |-> "boolean", val |-> IF b THEN "true" ELSE "false"]
NumberValue == [type |-> "number", val |-> "7"]

ContentInputs == {StringValue(s) : s \in Strings} \cup {NumberValue}
NameInputs == {StringValue(s) : s \in Names} \cup {NumberValue}
IsAutoSaveInputs == {BooleanValue(TRUE), StringValue("true")}

\* What the concurrent requests carry: valid parameters only.
ConcNames == {StringValue("notes"), StringValue("draft")}
ConcContents == {StringValue("hello"), StringValue("{\"a\":1}")}
ConcFlags == {BooleanValue(TRUE), BooleanValue(FALSE)}

\* Identifiers a request may carry: 0 stands for a malformed one, the others
\* are well-formed and name a record, or nothing while the collection is
\* not full.
DocIdInputs == 0..MaxDocs
VersionIdInputs == 0..MaxVersions

\* Mutant: every value passes for a string.
typeof_mutant(x) == "string"
typeof(x) == x.type

\* Mutant: every id passes for well-formed.
ObjectIdIsValid_mutant(id) == TRUE
\* mongoose.Types.ObjectId.isValid: 0 stands for the malformed ids.
ObjectIdIsValid(id) == id >= 1

\* String.prototype.trim on the names of the model.
trim(s) == IF s = " " THEN "" ELSE s

(***************************************************************************)
(* JSON values and JSON.parse on the strings of the model.                 *)
(***************************************************************************)
Num(n) == [t |-> "number", v |-> n]
Str(s) == [t |-> "string", v |-> s]
Obj(f) == [t |-> "object", v |-> f]
Arr(s) == [t |-> "array", v |-> s]
Undefined == [t |-> "undefined"]

\* JSON.parse: ok is FALSE where it throws a SyntaxError.
JSONParse(s) ==
  CASE s = "{\"a\":1}" -> [ok |-> TRUE, value |-> Obj([a |-> Num(1)])]
    [] s = "{\"a\":2}" -> [ok |-> TRUE, value |-> Obj([a |-> Num(2)])]
    [] s = "{\"a\":1,\"b\":1}" -> [ok |-> TRUE, value |-> Obj([a |-> Num(1), b |-> Num(1)])]
    [] s = "{\"a\":1,\"$hashKey\":2}" ->
         [ok |-> TRUE, value |-> Obj(("a" :> Num(1)) @@ ("$hashKey" :> Num(2)))]
    [] s = "1" -> [ok |-> TRUE, value |-> Num(1)]
    [] s = "1.0" -> [ok |-> TRUE, value |-> Num(1)]
    [] s = "\"hello\"" -> [ok |-> TRUE, value |-> Str("hello")]
    [] OTHER -> [ok |-> FALSE, value |-> Undefined]

(***************************************************************************)
(* diffPatcher: jsondiffpatch with the propertyFilter of the controller.   *)
(* The delta of two values: undefined when they are equal, [old, new] for  *)
(* a replaced value, and for two objects the object of the deltas of the   *)
(* keys that differ, [new] for an added key and [old, 0, 0] for a removed  *)
(* key.  (The strings of the model are shorter than jsondiffpatch's text   *)
(* diff threshold, and hold no arrays, where objectHash would be used.)    *)
(***************************************************************************)
propertyFilter(name) == name # "$hashKey"

RECURSIVE diffPatcher_diff(_, _)
diffPatcher_diff(left, right) ==
  IF left.t = "object" /\ right.t = "object"
  THEN LET keys == {k \in (DOMAIN left.v) \cup (DOMAIN right.v) : propertyFilter(k)}
           child(k) ==
             IF k \notin DOMAIN right.v THEN Arr(<<left.v[k], Num(0), Num(0)>>)
             ELSE IF k \notin DOMAIN left.v THEN Arr(<<right.v[k]>>)
             ELSE diffPatcher_diff(left.v[k], right.v[k])
           changed == {k \in keys : child(k) # Undefined}
       IN IF changed = {} THEN Undefined
          ELSE [t |-> "delta", v |-> [k \in changed |-> child(k)]]
  ELSE IF left = right THEN Undefined
  ELSE Arr(<<left, right>>)

\* Mutant: a side that does not parse falls back to its raw string alone.
calculateDiff_mutant(docContent, content) ==
  LET old == JSONParse(docContent)
      new == JSONParse(content)
      oldContent == IF old.ok THEN old.value ELSE Str(docContent)
      newContent == IF new.ok THEN new.value ELSE Str(content)
  IN diffPatcher_diff(oldContent, newContent)
\* createVersion's "Calculate diff": both sides parsed, or both raw when
\* either JSON.parse throws.
calculateDiff(docContent, content) ==
  LET old == JSONParse(docContent)
      new == JSONParse(content)
      parsed == old.ok /\ new.ok
      oldContent == IF parsed THEN old.value ELSE Str(docContent)
      newContent == IF parsed THEN new.value ELSE Str(content)
  IN diffPatcher_diff(oldContent, newContent)

(***************************************************************************)
(* The state.                                                              *)
(***************************************************************************)
VARIABLES
  documents,   \* the Document collection, in insertion order
  versions,    \* the Version collection, in insertion order
  pc,          \* pc[p]: where the request served by p stands
  local,       \* local[p]: the locals of the handler p runs
  resp         \* the response sent last

vars == <<documents, versions, pc, local, resp>>

\* The locals of a handler: the authenticated user, the parameters, and what
\* the handler has loaded or computed (id, vid 0: none).
NoLocal == [user |-> "", id |-> 0, vid |-> 0, content |-> "",
            isAutoSave |-> FALSE, loaded |-> "", diff |-> Undefined]
\* A response: its status and what its body carries, the message of an error
\* or the record(s) of a success; list is the ids of the versions that
\* getVersions returns, in the order returned.
Response(status, body) == [status |-> status, body |-> body, list |-> <<>>]

\* The bodies that carry no document or version data.
Messages == {"", "Name must be a non-empty string.", "Content must be a string.",
             "isAutoSave is required and must be a boolean.", "Invalid document ID",
             "Invalid ID(s)", "Invalid version ID", "Document not found",
             "Version not found", "Parent document not found", "Access denied.",
             "An internal server error occurred."}

Init ==
  /\ documents = <<>>
  /\ versions = <<>>
  /\ pc = [p \in Procs |-> "idle"]
  /\ local = [p \in Procs |-> NoLocal]
  /\ resp = Response(0, "")

(***************************************************************************)
(* The collections.                                                        *)
(***************************************************************************)
\* Document.findById / Version.findById: the record exists.
DocumentExists(id) == id \in 1..Len(documents)
VersionExists(vid) == vid \in 1..Len(versions)

\* Mutant: the version is looked up by its id alone.
VersionFindOne_mutant(vid, id) == VersionExists(vid)
\* Version.findOne({ _id: versionId, documentId: id })
VersionFindOne(vid, id) == VersionExists(vid) /\ versions[vid].documentId = id

\* Mutant: the ownership check left out.
isOwner_mutant(doc, user) == TRUE
\* The ownership check of every handler: doc.userId is req.user._id.
isOwner(doc, user) == doc.userId = user

\* required: true of a String path: the empty string fails validation.
schemaRequired(s) == s # ""

\* Requests that will insert a Version hold a place in the bounded collection.
Creating == {"createDocument_version", "createVersion_create", "mergeVersion_version",
             "mergeVersion_save", "mergeVersion_create"}
CanCreateVersion ==
  Len(versions) + Cardinality({q \in Procs : pc[q] \in Creating}) < MaxVersions

\* Mutant: the record replaces the newest one once the collection is not empty.
insertVersion_mutant(vs, v) == IF vs = <<>> THEN <<v>> ELSE [vs EXCEPT ![Len(vs)] = v]
\* Document.create / Version.create: the record is inserted after those there.
insertDocument(docs, doc) == Append(docs, doc)
insertVersion(vs, v) == Append(vs, v)

\* A handler returns res.status(...).json(...) and changes nothing else.
Reply(status, body) ==
  /\ resp' = Response(status, body)
  /\ UNCHANGED <<documents, versions, pc, local>>

\* The last action of a handler that awaited: it responds and ends.
Finish(p, status, body) ==
  /\ resp' = Response(status, body)
  /\ pc' = [pc EXCEPT ![p] = "idle"]
  /\ local' = [local EXCEPT ![p] = NoLocal]

(***************************************************************************)
(* createDocument                                                          *)
(***************************************************************************)
\* Mutant: the initial version is created without its diff.
initialVersion_mutant(docId, content, userId) ==
  [documentId |-> docId, content |-> content, isAutoSave |-> FALSE,
   diff |-> Undefined, mergedFrom |-> 0, userId |-> userId]
\* The fields of the Version created with a document (mergedFrom 0: unset).
initialVersion(docId, content, userId) ==
  [documentId |-> docId, content |-> content, isAutoSave |-> FALSE,
   diff |-> Arr(<<>>), mergedFrom |-> 0, userId |-> userId]

\* Validation, then Document.create.
createDocument(p, user, name, content) ==
  /\ pc[p] = "idle"
  /\ IF typeof(name) # "string" \/ trim(name.val) = ""
     THEN Reply(400, "Name must be a non-empty string.")
     ELSE IF typeof(content) # "string"
     THEN Reply(400, "Content must be a string.")
     ELSE IF ~schemaRequired(content.val)
     THEN Reply(500, "An internal server error occurred.")
     ELSE /\ Len(documents) < MaxDocs
          /\ CanCreateVersion
          /\ documents' = insertDocument(documents,
               [name |-> name.val, content |-> content.val, userId |-> user])
          /\ pc' = [pc EXCEPT ![p] = "createDocument_version"]
          /\ local' = [local EXCEPT ![p] =
               [NoLocal EXCEPT !.user = user, !.id = Len(documents) + 1,
                               !.content = content.val]]
          /\ UNCHANGED <<versions, resp>>

\* Version.create of the initial version, then the 201 response.
createDocument_version(p) ==
  /\ pc[p] = "createDocument_version"
  /\ versions' = insertVersion(versions,
       initialVersion(local[p].id, local[p].content, local[p].user))
  /\ Finish(p, 201, "document")
  /\ UNCHANGED documents

(***************************************************************************)
(* getDocumentById                                                         *)
(***************************************************************************)
getDocumentById(p, user, id) ==
  /\ pc[p] = "idle"
  /\ IF ~ObjectIdIsValid(id) THEN Reply(400, "Invalid document ID")
     ELSE IF ~DocumentExists(id) THEN Reply(404, "Document not found")
     ELSE IF ~isOwner(documents[id], user) THEN Reply(403, "Access denied.")
     ELSE Reply(200, "document")

(***************************************************************************)
(* createVersion                                                           *)
(***************************************************************************)
\* Mutant: the flag of the request is not stored.
newVersion_mutant(docId, content, isAutoSave, diff, userId) ==
  [documentId |-> docId, content |-> content, isAutoSave |-> FALSE,
   diff |-> diff, mergedFrom |-> 0, userId |-> userId]
\* The fields of the Version createVersion creates.
newVersion(docId, content, isAutoSave, diff, userId) ==
  [documentId |-> docId, content |-> content, isAutoSave |-> isAutoSave,
   diff |-> diff, mergedFrom |-> 0, userId |-> userId]

\* Mutant: the save is left out.
saveContent_mutant(docs, id, content) == docs
\* doc.content = content; doc.save()
saveContent(docs, id, content) == [docs EXCEPT ![id].content = content]

\* Validation, Document.findById, the ownership check and the diff against
\* the content loaded.  Version.create validates before it inserts: an empty
\* content is rejected, and the error answered 500.
createVersion(p, user, id, content, isAutoSave) ==
  /\ pc[p] = "idle"
  /\ IF typeof(content) # "string" THEN Reply(400, "Content must be a string.")
     ELSE IF typeof(isAutoSave) # "boolean"
     THEN Reply(400, "isAutoSave is required and must be a boolean.")
     ELSE IF ~ObjectIdIsValid(id) THEN Reply(400, "Invalid document ID")
     ELSE IF ~DocumentExists(id) THEN Reply(404, "Document not found")
     ELSE IF ~isOwner(documents[id], user) THEN Reply(403, "Access denied.")
     ELSE IF ~schemaRequired(content.val)
     THEN Reply(500, "An internal server error occurred.")
     ELSE /\ CanCreateVersion
          /\ pc' = [pc EXCEPT ![p] = "createVersion_create"]
          /\ local' = [local EXCEPT ![p] =
               [NoLocal EXCEPT !.user = user, !.id = id, !.content = content.val,
                               !.isAutoSave = (isAutoSave.val = "true"),
                               !.loaded = documents[id].content,
                               !.diff = calculateDiff(documents[id].content, content.val)]]
          /\ UNCHANGED <<documents, versions, resp>>

\* Version.create
createVersion_create(p) ==
  /\ pc[p] = "createVersion_create"
  /\ versions' = insertVersion(versions,
       newVersion(local[p].id, local[p].content, local[p].isAutoSave, local[p].diff,
                  documents[local[p].id].userId))
  /\ pc' = [pc EXCEPT ![p] = "createVersion_save"]
  /\ UNCHANGED <<documents, local, resp>>

\* doc.content = content; doc.save(); the 201 response.
createVersion_save(p) ==
  /\ pc[p] = "createVersion_save"
  /\ documents' = saveContent(documents, local[p].id, local[p].content)
  /\ Finish(p, 201, "version")
  /\ UNCHANGED versions

(***************************************************************************)
(* getVersions, getVersionById                                             *)
(***************************************************************************)
\* Mutant: the versions are returned oldest first.
RECURSIVE versionsOf_mutant(_, _, _)
versionsOf_mutant(vs, id, n) ==
  IF n = 0 THEN <<>>
  ELSE IF vs[n].documentId = id THEN versionsOf_mutant(vs, id, n - 1) \o <<n>>
  ELSE versionsOf_mutant(vs, id, n - 1)
\* Version.find({ documentId: id }).sort({ createdAt: -1 }): the ids of the
\* document's versions among the first n, newest first.
RECURSIVE versionsOf(_, _, _)
versionsOf(vs, id, n) ==
  IF n = 0 THEN <<>>
  ELSE IF vs[n].documentId = id THEN <<n>> \o versionsOf(vs, id, n - 1)
  ELSE versionsOf(vs, id, n - 1)

\* The document is loaded for its owner only, so the handler is one action.
getVersions(p, user, id) ==
  /\ pc[p] = "idle"
  /\ IF ~ObjectIdIsValid(id) THEN Reply(400, "Invalid document ID")
     ELSE IF ~DocumentExists(id) THEN Reply(404, "Document not found")
     ELSE IF ~isOwner(documents[id], user) THEN Reply(403, "Access denied.")
     ELSE /\ resp' = [Response(200, "versions") EXCEPT
                       !.list = versionsOf(versions, id, Len(versions))]
          /\ UNCHANGED <<documents, versions, pc, local>>

\* The version is looked up first, under the document id given; then its
\* document, for the ownership check.
getVersionById(p, user, id, versionId) ==
  /\ pc[p] = "idle"
  /\ IF ~ObjectIdIsValid(id) \/ ~ObjectIdIsValid(versionId)
     THEN Reply(400, "Invalid ID(s)")
     ELSE IF ~VersionFindOne(versionId, id) THEN Reply(404, "Version not found")
     ELSE IF ~DocumentExists(versions[versionId].documentId)
     THEN Reply(404, "Parent document not found")
     ELSE IF ~isOwner(documents[versions[versionId].documentId], user)
     THEN Reply(403, "Access denied.")
     ELSE Reply(200, "versionWithMergedFrom")

(***************************************************************************)
(* mergeVersion                                                            *)
(***************************************************************************)
\* Mutant: the merge version does not name the version it restores.
mergedVersion_mutant(docId, content, versionId, userId) ==
  [documentId |-> docId, content |-> content, isAutoSave |-> FALSE,
   diff |-> Undefined, mergedFrom |-> 0, userId |-> userId]
\* The fields of the Version mergeVersion creates: no diff is given.
mergedVersion(docId, content, versionId, userId) ==
  [documentId |-> docId, content |-> content, isAutoSave |-> FALSE,
   diff |-> Undefined, mergedFrom |-> versionId, userId |-> userId]

\* Validation, Document.findById and the ownership check.
mergeVersion(p, user, id, versionId) ==
  /\ pc[p] = "idle"
  /\ IF ~ObjectIdIsValid(id) \/ ~ObjectIdIsValid(versionId)
     THEN Reply(400, "Invalid ID(s)")
     ELSE IF ~DocumentExists(id) THEN Reply(404, "Document not found")
     ELSE IF ~isOwner(documents[id], user) THEN Reply(403, "Access denied.")
     ELSE /\ CanCreateVersion
          /\ pc' = [pc EXCEPT ![p] = "mergeVersion_version"]
          /\ local' = [local EXCEPT ![p] =
               [NoLocal EXCEPT !.user = user, !.id = id, !.vid = versionId,
                               !.loaded = documents[id].content]]
          /\ UNCHANGED <<documents, versions, resp>>

\* Version.findOne({ _id: versionId, documentId: id })
mergeVersion_version(p) ==
  /\ pc[p] = "mergeVersion_version"
  /\ IF ~VersionFindOne(local[p].vid, local[p].id)
     THEN /\ Finish(p, 404, "Version not found")
          /\ UNCHANGED <<documents, versions>>
     ELSE /\ pc' = [pc EXCEPT ![p] = "mergeVersion_save"]
          /\ local' = [local EXCEPT ![p].content = versions[local[p].vid].content]
          /\ UNCHANGED <<documents, versions, resp>>

\* doc.content = version.content; doc.save()
mergeVersion_save(p) ==
  /\ pc[p] = "mergeVersion_save"
  /\ documents' = saveContent(documents, local[p].id, local[p].content)
  /\ pc' = [pc EXCEPT ![p] = "mergeVersion_create"]
  /\ UNCHANGED <<versions, local, resp>>

\* Version.create of the merge version, then the response.
mergeVersion_create(p) ==
  /\ pc[p] = "mergeVersion_create"
  /\ versions' = insertVersion(versions,
       mergedVersion(local[p].id, local[p].content, local[p].vid,
                     documents[local[p].id].userId))
  /\ Finish(p, 200, "merged")
  /\ UNCHANGED documents

(***************************************************************************)
(* updateDocumentName                                                      *)
(***************************************************************************)
\* Mutant: the name is assigned to the content as well.
saveName_mutant(docs, id, name) == [docs EXCEPT ![id].name = name, ![id].content = name]
\* docToUpdate.name = name; docToUpdate.save()
saveName(docs, id, name) == [docs EXCEPT ![id].name = name]

\* The document loaded is used for its owner only, so the handler is one
\* action.  After the save the response reads doc.content, and doc is not
\* defined in the handler: the ReferenceError is caught and answered 500.
updateDocumentName(p, user, id, name) ==
  /\ pc[p] = "idle"
  /\ IF typeof(name) # "string" \/ trim(name.val) = ""
     THEN Reply(400, "Name must be a non-empty string.")
     ELSE IF ~ObjectIdIsValid(id) THEN Reply(400, "Invalid document ID")
     ELSE IF ~DocumentExists(id) THEN Reply(404, "Document not found")
     ELSE IF ~isOwner(documents[id], user) THEN Reply(403, "Access denied.")
     ELSE /\ documents' = saveName(documents, id, name.val)
          /\ resp' = Response(500, "An internal server error occurred.")
          /\ UNCHANGED <<versions, pc, local>>

(***************************************************************************)
(* updateCurrentVersion, updateVersionContent                              *)
(***************************************************************************)
\* Mutant: the content is saved as a new version.
saveVersionContent_mutant(vs, versionId, content) ==
  Append(vs, [vs[versionId] EXCEPT !.content = content])
\* versionToUpdate.content = content; versionToUpdate.save()
saveVersionContent(vs, versionId, content) == [vs EXCEPT ![versionId].content = content]

\* The version and its parent document are loaded for the version's
\* documentId and the document's owner only, so the handler is one action.
\* The id parameter of the route is used as a version id.  The save
\* validates: an empty content is rejected, and the error answered 500.
updateCurrentVersion(p, user, versionId, content) ==
  /\ pc[p] = "idle"
  /\ IF typeof(content) # "string" THEN Reply(400, "Content must be a string.")
     ELSE IF ~ObjectIdIsValid(versionId) THEN Reply(400, "Invalid version ID")
     ELSE IF ~VersionExists(versionId) THEN Reply(404, "Version not found")
     ELSE IF ~DocumentExists(versions[versionId].documentId)
     THEN Reply(404, "Parent document not found")
     ELSE IF ~isOwner(documents[versions[versionId].documentId], user)
     THEN Reply(403, "Access denied.")
     ELSE IF ~schemaRequired(content.val)
     THEN Reply(500, "An internal server error occurred.")
     ELSE /\ versions' = saveVersionContent(versions, versionId, content.val)
          /\ resp' = Response(200, "version")
          /\ UNCHANGED <<documents, pc, local>>

\* As updateCurrentVersion, but the response reads version.content, and
\* version is not defined in the handler: after the save the ReferenceError
\* is caught and answered 500.
updateVersionContent(p, user, versionId, content) ==
  /\ pc[p] = "idle"
  /\ IF typeof(content) # "string" THEN Reply(400, "Content must be a string.")
     ELSE IF ~ObjectIdIsValid(versionId) THEN Reply(400, "Invalid version ID")
     ELSE IF ~VersionExists(versionId) THEN Reply(404, "Version not found")
     ELSE IF ~DocumentExists(versions[versionId].documentId)
     THEN Reply(404, "Parent document not found")
     ELSE IF ~isOwner(documents[versions[versionId].documentId], user)
     THEN Reply(403, "Access denied.")
     ELSE IF ~schemaRequired(content.val)
     THEN Reply(500, "An internal server error occurred.")
     ELSE /\ versions' = saveVersionContent(versions, versionId, content.val)
          /\ resp' = Response(500, "An internal server error occurred.")
          /\ UNCHANGED <<documents, pc, local>>

(***************************************************************************)
(* The requests served: any handler, for any authenticated user and any    *)
(* parameters, one action at a time.  P are the requests in flight at a    *)
(* time, the other sets are what the requests carry.                       *)
(***************************************************************************)
\* POST /documents
Create(P, U, names, contents) ==
  \E p \in P :
    \E u \in U, name \in names, content \in contents :
      createDocument(p, u, name, content)

\* The second step of POST /documents, and the other routes.
Serve(P, U, names, contents, flags, ids, versionIds) ==
  \E p \in P :
    \/ createDocument_version(p)
    \/ \E u \in U, id \in ids : getDocumentById(p, u, id)
    \/ \E u \in U, id \in ids, content \in contents, isAutoSave \in flags :
         createVersion(p, u, id, content, isAutoSave)
    \/ createVersion_create(p)
    \/ createVersion_save(p)
    \/ \E u \in U, id \in ids : getVersions(p, u, id)
    \/ \E u \in U, id \in ids, versionId \in versionIds :
         getVersionById(p, u, id, versionId)
    \/ \E u \in U, id \in ids, versionId \in versionIds :
         mergeVersion(p, u, id, versionId)
    \/ mergeVersion_version(p)
    \/ mergeVersion_save(p)
    \/ mergeVersion_create(p)
    \/ \E u \in U, id \in ids, name \in names :
         updateDocumentName(p, u, id, name)
    \/ \E u \in U, versionId \in versionIds, content \in contents :
         updateCurrentVersion(p, u, versionId, content)
    \/ \E u \in U, versionId \in versionIds, content \in contents :
         updateVersionContent(p, u, versionId, content)

\* One request at a time, with every kind of parameter, valid or not.
Next ==
  \/ Create({"p1"}, Users, NameInputs, ContentInputs)
  \/ Serve({"p1"}, Users, NameInputs, ContentInputs, IsAutoSaveInputs, DocIdInputs,
           VersionIdInputs)

Spec == Init /\ [][Next]_vars

\* Concurrent requests of one user on ConcMaxDocs documents, with valid
\* parameters: no document is created once they are there.
ConcNext ==
  \/ Len(documents) < ConcMaxDocs /\ Create(Procs, {"alice"}, ConcNames, ConcContents)
  \/ Serve(Procs, {"alice"}, ConcNames, ConcContents, ConcFlags, 1..ConcMaxDocs,
           1..MaxVersions)

ConcSpec == Init /\ [][ConcNext]_vars

\* The calls that create documents and versions or write a content:
\* createDocument's second step, createVersion, mergeVersion and
\* updateVersionContent.
Write(P, U, contents, flags, ids, versionIds) ==
  \E p \in P :
    \/ createDocument_version(p)
    \/ \E u \in U, id \in ids, content \in contents, isAutoSave \in flags :
         createVersion(p, u, id, content, isAutoSave)
    \/ createVersion_create(p)
    \/ createVersion_save(p)
    \/ \E u \in U, id \in ids, versionId \in versionIds :
         mergeVersion(p, u, id, versionId)
    \/ mergeVersion_version(p)
    \/ mergeVersion_save(p)
    \/ mergeVersion_create(p)
    \/ \E u \in U, versionId \in versionIds, content \in contents :
         updateVersionContent(p, u, versionId, content)

\* Concurrent requests of one user, these calls only.
ChainNext ==
  \/ Len(documents) < ConcMaxDocs /\ Create(Procs, {"alice"}, ConcNames, ConcContents)
  \/ Write(Procs, {"alice"}, ConcContents, ConcFlags, 1..ConcMaxDocs, 1..MaxVersions)

ChainSpec == Init /\ [][ChainNext]_vars

\* The contents of the specification of the diff: strings that do not parse,
\* objects that differ by a changed, an added or a filtered key, and
\* scalars, two of them with the same value.
DiffStrings == {"hello", "world", "{\"a\":1}", "{\"a\":2}", "{\"a\":1,\"b\":1}",
                "{\"a\":1,\"$hashKey\":2}", "1", "1.0", "\"hello\""}

\* A document of alice has been created with one of these contents.
DiffInit ==
  \E s \in DiffStrings :
    /\ documents = <<[name |-> "notes", content |-> s, userId |-> "alice"]>>
    /\ versions = <<initialVersion(1, s, "alice")>>
    /\ pc = [p \in Procs |-> "idle"]
    /\ local = [p \in Procs |-> NoLocal]
    /\ resp = Response(201, "document")

\* Its owner creates versions with these contents, one call at a time.
DiffNext ==
  \/ \E s \in DiffStrings :
       createVersion("p1", "alice", 1, StringValue(s), BooleanValue(FALSE))
  \/ createVersion_create("p1")
  \/ createVersion_save("p1")

DiffSpec == DiffInit /\ [][DiffNext]_vars

(***************************************************************************)
(* The properties.  A step of a handler is told by the move of its pc; the *)
(* start of a call is told by the handler's action and its parameters.     *)
(***************************************************************************)
\* Every parameter a request of either specification may carry.
AllContents == ContentInputs \cup ConcContents
AllFlags == IsAutoSaveInputs \cup ConcFlags
AllNames == NameInputs \cup ConcNames
Idle == \A p \in Procs : pc[p] = "idle"

\* C1: a successful createVersion(d, B, isAutoSave) by the owner of d takes
\* d.content as it is when the call starts as the baseline, appends exactly
\* one Version of d (none at its other steps) whose content is B, whose
\* isAutoSave is the flag given, whose mergedFrom is unset and whose diff is
\* the diff from the baseline to B, and then sets d.content to B and
\* answers 201.
C1_createVersion ==
  [][\A p \in Procs :
       /\ (pc[p] = "idle" /\ pc'[p] = "createVersion_create") =>
            \A u \in Users, id \in DocIdInputs, c \in AllContents, f \in AllFlags :
              createVersion(p, u, id, c, f) =>
                /\ c.type = "string" /\ f.type = "boolean"
                /\ id \in 1..Len(documents) /\ documents[id].userId = u
                /\ local'[p].id = id /\ local'[p].content = c.val
                /\ local'[p].isAutoSave = (f.val = "true")
                /\ local'[p].loaded = documents[id].content
                /\ documents' = documents /\ versions' = versions
       /\ (pc[p] = "createVersion_create" /\ pc'[p] # pc[p]) =>
            /\ pc'[p] = "createVersion_save" /\ local'[p] = local[p]
            /\ documents' = documents
            /\ versions' = Append(versions,
                 [documentId |-> local[p].id, content |-> local[p].content,
                  isAutoSave |-> local[p].isAutoSave,
                  diff |-> calculateDiff(local[p].loaded, local[p].content),
                  mergedFrom |-> 0, userId |-> documents[local[p].id].userId])
       /\ (pc[p] = "createVersion_save" /\ pc'[p] # pc[p]) =>
            /\ pc'[p] = "idle" /\ versions' = versions
            /\ documents' = [documents EXCEPT ![local[p].id].content = local[p].content]
            /\ resp' = Response(201, "version")
    ]_vars

\* A createVersion of {"a":1} with the flag set, on a document of content
\* hello, has completed.
C1_witness ==
  /\ Idle /\ resp = Response(201, "version") /\ Len(versions) = 2
  /\ documents[1].content = "{\"a\":1}"
  /\ versions[2] = [documentId |-> 1, content |-> "{\"a\":1}", isAutoSave |-> TRUE,
                    diff |-> Arr(<<Str("hello"), Str("{\"a\":1}")>>),
                    mergedFrom |-> 0, userId |-> "alice"]

\* C2: a successful merge(d, v) reads v.content, sets d.content to it and
\* then appends exactly one Version of d with that content, mergedFrom v.id
\* and isAutoSave false, wherever v stands in the chain; it answers 200.
C2_mergeVersion ==
  [][\A p \in Procs :
       /\ (pc[p] = "idle" /\ pc'[p] = "mergeVersion_version") =>
            \A u \in Users, id \in DocIdInputs, vid \in VersionIdInputs :
              mergeVersion(p, u, id, vid) =>
                /\ id \in 1..Len(documents) /\ documents[id].userId = u
                /\ local'[p].id = id /\ local'[p].vid = vid
                /\ documents' = documents /\ versions' = versions
       /\ (pc[p] = "mergeVersion_version" /\ pc'[p] # pc[p]) =>
            /\ documents' = documents /\ versions' = versions
            /\ IF local[p].vid \in 1..Len(versions)
                  /\ versions[local[p].vid].documentId = local[p].id
               THEN /\ pc'[p] = "mergeVersion_save"
                    /\ local'[p] = [local[p] EXCEPT !.content = versions[local[p].vid].content]
               ELSE pc'[p] = "idle" /\ resp'.status = 404
       /\ (pc[p] = "mergeVersion_save" /\ pc'[p] # pc[p]) =>
            /\ pc'[p] = "mergeVersion_create" /\ local'[p] = local[p]
            /\ versions' = versions
            /\ documents' = [documents EXCEPT ![local[p].id].content = local[p].content]
       /\ (pc[p] = "mergeVersion_create" /\ pc'[p] # pc[p]) =>
            /\ pc'[p] = "idle" /\ documents' = documents
            /\ Len(versions') = Len(versions) + 1
            /\ \A i \in 1..Len(versions) : versions'[i] = versions[i]
            /\ versions'[Len(versions')].documentId = local[p].id
            /\ versions'[Len(versions')].content = local[p].content
            /\ versions'[Len(versions')].mergedFrom = local[p].vid
            /\ versions'[Len(versions')].isAutoSave = FALSE
            /\ resp' = Response(200, "merged")
    ]_vars

\* The first of three versions has been merged: a version stands between it
\* and the merge version.
C2_witness ==
  /\ Idle /\ resp = Response(200, "merged") /\ Len(versions) = 3
  /\ versions[2].mergedFrom = 0 /\ versions[2].content # versions[1].content
  /\ versions[3].mergedFrom = 1 /\ versions[3].content = versions[1].content
  /\ ~versions[3].isAutoSave
  /\ documents[1].content = versions[1].content

\* C3: in every state, whatever the caller and the parameters, a call of
\* updateVersionContent(v, X) or updateCurrentVersion(v, X) creates no
\* Version and leaves every document and every version as they are, but for
\* the content of v, which becomes X when the call is accepted (X a
\* non-empty string, v a version of a document of the caller).
C3_updateVersion ==
  \A p \in Procs, u \in Users, vid \in VersionIdInputs, c \in AllContents :
    LET accepted == /\ c.type = "string" /\ c.val # ""
                    /\ vid \in 1..Len(versions)
                    /\ documents[versions[vid].documentId].userId = u
    IN ~ENABLED
          /\ updateVersionContent(p, u, vid, c) \/ updateCurrentVersion(p, u, vid, c)
          /\ ~ /\ documents' = documents
               /\ versions' = IF accepted
                              THEN [versions EXCEPT ![vid].content = c.val]
                              ELSE versions

\* updateCurrentVersion has changed the content of the only version of a
\* document, and the document keeps its own content.
C3_witness ==
  /\ resp = Response(200, "version") /\ Len(documents) = 1 /\ Len(versions) = 1
  /\ versions[1].content = "{\"a\":1}" /\ documents[1].content = "hello"
  /\ versions[1].diff = Arr(<<>>)

\* C4: a successful createDocument(name, C) creates one document with the
\* name, content C and the caller as owner, and then exactly one Version of
\* that document, with content C, the empty diff, isAutoSave false and
\* mergedFrom unset; it answers 201.
C4_createDocument ==
  [][\A p \in Procs :
       /\ (pc[p] = "idle" /\ pc'[p] = "createDocument_version") =>
            \A u \in Users, name \in AllNames, c \in AllContents :
              createDocument(p, u, name, c) =>
                /\ name.type = "string" /\ c.type = "string"
                /\ documents' = Append(documents,
                     [name |-> name.val, content |-> c.val, userId |-> u])
                /\ versions' = versions
                /\ \A i \in 1..Len(versions) : versions[i].documentId # Len(documents')
                /\ local'[p].id = Len(documents') /\ local'[p].content = c.val
                /\ local'[p].user = u
       /\ (pc[p] = "createDocument_version" /\ pc'[p] # pc[p]) =>
            /\ pc'[p] = "idle" /\ documents' = documents
            /\ versions' = Append(versions,
                 [documentId |-> local[p].id, content |-> local[p].content,
                  isAutoSave |-> FALSE, diff |-> Arr(<<>>), mergedFrom |-> 0,
                  userId |-> local[p].user])
            /\ resp' = Response(201, "document")
    ]_vars

\* Two documents have been created, each with its initial version.
C4_witness ==
  /\ Idle /\ resp = Response(201, "document")
  /\ Len(documents) = 2 /\ Len(versions) = 2
  /\ \A i \in 1..2 : /\ versions[i].documentId = i
                     /\ versions[i].content = documents[i].content
                     /\ versions[i].diff = Arr(<<>>)
  /\ documents[1].content # documents[2].content

\* C5: no createVersion or merge saves the content of a document that is no
\* longer the content the call loaded when it started.
C5_serialized ==
  [][\A p \in Procs :
       (pc[p] \in {"createVersion_save", "mergeVersion_save"} /\ pc'[p] # pc[p]) =>
         documents[local[p].id].content = local[p].loaded
    ]_vars

C7_appendOnly ==
  [][/\ Len(versions') >= Len(versions)
     /\ \A i \in 1..Len(versions) :
          versions'[i] = [versions[i] EXCEPT !.content = versions'[i].content]
    ]_vars

\* The chains of two documents have grown in turn.
C7_witness ==
  /\ Idle /\ Len(versions) = 3
  /\ versions[1].documentId = 1 /\ versions[2].documentId = 2
  /\ versions[3].documentId = 1 /\ versions[3].mergedFrom = 0
  /\ versions[3].diff # Arr(<<>>)

\* C8: the content of an existing document changes only at the save step of
\* a createVersion or merge on that document, to the content of that call;
\* every other step (createDocument, updateDocumentName,
\* updateVersionContent, updateCurrentVersion, the reads, the other steps
\* of createVersion and merge) leaves the content of every document.
C8_contentWriters ==
  [][\A d \in 1..Len(documents) :
       \/ documents'[d].content = documents[d].content
       \/ \E p \in Procs :
            /\ pc[p] \in {"createVersion_save", "mergeVersion_save"}
            /\ pc'[p] # pc[p] /\ local[p].id = d
            /\ documents'[d].content = local[p].content
    ]_vars

\* A document has been renamed after a createVersion on it, and one of its
\* versions has been given another content: the document's content is still
\* the one createVersion wrote.
C8_witness ==
  /\ Idle /\ Len(versions) = 2
  /\ documents[1].name = "draft" /\ versions[1].userId = "alice"
  /\ versions[2].diff = Arr(<<Str("hello"), Str("{\"a\":1}")>>)
  /\ versions[2].content = "hello"
  /\ documents[1].content = "{\"a\":1}"
  /\ resp = Response(500, "An internal server error occurred.")

\* A call is answered with an error of the status given and a message, no
\* document or version data, and nothing is created or modified.
Refused(status) ==
  /\ resp'.status = status /\ resp'.body \in Messages
  /\ UNCHANGED <<documents, versions, pc, local>>
Denied == Refused(403) /\ resp'.body = "Access denied."

C10_validation ==
  \A p \in Procs, u \in Users, c \in AllContents :
    /\ \A id \in DocIdInputs, f \in AllFlags :
         (c.type # "string" \/ f.type # "boolean") =>
           ~ENABLED (createVersion(p, u, id, c, f) /\ ~Refused(400))
    /\ c.type # "string" =>
         /\ \A name \in AllNames :
              ~ENABLED (createDocument(p, u, name, c) /\ ~Refused(400))
         /\ \A vid \in VersionIdInputs :
              ~ENABLED (updateVersionContent(p, u, vid, c) /\ ~Refused(400))

\* createVersion has been refused for its isAutoSave on a document that has
\* versions.
C10_witness ==
  /\ resp = Response(400, "isAutoSave is required and must be a boolean.")
  /\ Len(documents) = 2 /\ Len(versions) = 3

\* C11: a call that is answered with an error leaves the documents and the
\* versions as they were, and a call that changes them is answered with a
\* success.  (Stated of the calls that are one step: no request moves.)
C11_noPartialWrite ==
  [][(pc' = pc /\ resp'.status >= 400) =>
       (documents' = documents /\ versions' = versions)
    ]_vars

\* C12 as stated: getVersionById and mergeVersion are answered NotFound
\* whenever the version exists and belongs to another document than the one
\* named (a well-formed id), whoever calls.
C12_original ==
  [][\A p \in Procs, u \in Users, id \in 1..MaxDocs, vid \in 1..Len(versions) :
       versions[vid].documentId # id =>
         /\ getVersionById(p, u, id, vid) => resp'.status = 404
         /\ (mergeVersion(p, u, id, vid) /\ pc'[p] = "idle") => resp'.status = 404
         /\ (mergeVersion_version(p) /\ local[p].id = id /\ local[p].vid = vid)
              => resp'.status = 404
    ]_vars

\* C12, amended: when the version exists and belongs to another document
\* than the one named (a well-formed id), getVersionById is answered
\* NotFound; mergeVersion is answered NotFound when the caller owns the
\* document named or no such document exists, and AccessDenied when the
\* document named is another user's.  In every case no document and no
\* version is created or changed.
C12_wrongParent ==
  \A p \in Procs, u \in Users, id \in 1..MaxDocs, vid \in 1..Len(versions) :
    versions[vid].documentId # id =>
      /\ ~ENABLED (getVersionById(p, u, id, vid) /\ ~Refused(404))
      /\ ~ENABLED
            /\ mergeVersion(p, u, id, vid)
            /\ ~IF id \notin 1..Len(documents) THEN Refused(404)
                ELSE IF documents[id].userId # u THEN Denied
                ELSE /\ pc'[p] = "mergeVersion_version"
                     /\ local'[p].id = id /\ local'[p].vid = vid
                     /\ UNCHANGED <<documents, versions, resp>>
      /\ (pc[p] = "mergeVersion_version" /\ local[p].id = id /\ local[p].vid = vid) =>
           ~ENABLED
              /\ mergeVersion_version(p)
              /\ ~ /\ resp' = Response(404, "Version not found")
                   /\ pc'[p] = "idle"
                   /\ UNCHANGED <<documents, versions>>

\* A call has been answered that the version is not found while every
\* well-formed version id names a version: the version named belongs to
\* another document than the one named.
C12_witness ==
  /\ Idle /\ resp = Response(404, "Version not found")
  /\ Len(documents) = 2 /\ Len(versions) = MaxVersions
  /\ versions[2].documentId = 2 /\ versions[3].documentId = 1
  /\ documents[1].userId = documents[2].userId

\* C13: the Version that mergeVersion appends carries the diff from the
\* content the document had when the merge started to the content of the
\* version merged.
C13_mergeDiff ==
  [][\A p \in Procs :
       (pc[p] = "mergeVersion_create" /\ pc'[p] # pc[p]) =>
         versions'[Len(versions')].diff = calculateDiff(local[p].loaded, local[p].content)
    ]_vars

\* The versions of a document created before version i.
Before(i) == {j \in 1..(i - 1) : versions[j].documentId = versions[i].documentId}
\* The largest of a non-empty set of version ids.
Newest(S) == CHOOSE j \in S : \A k \in S : k <= j

\* C14: in every state the diff of the first version of a document is the
\* empty diff, and the diff of every other version is the diff from the
\* stored content of the version before it in the document's chain to its
\* own stored content.
C14_chainDiff ==
  \A i \in 1..Len(versions) :
    versions[i].diff =
      IF Before(i) = {} THEN Arr(<<>>)
      ELSE calculateDiff(versions[Newest(Before(i))].content, versions[i].content)

\* C15: in every state every document has at least one Version.
C15_initialVersion ==
  \A d \in 1..Len(documents) : \E i \in 1..Len(versions) : versions[i].documentId = d

\* C16: in every state, getVersions of a document by its owner is answered
\* with exactly the versions of that document, each once, newest first, and
\* changes nothing: the list returned is determined by the versions stored,
\* so two calls with no change between them return the same list.
C16_getVersions ==
  \A p \in Procs, id \in 1..Len(documents) :
    ~ENABLED
       /\ getVersions(p, documents[id].userId, id)
       /\ ~ /\ resp'.status = 200
            /\ {resp'.list[k] : k \in 1..Len(resp'.list)} =
                 {i \in 1..Len(versions) : versions[i].documentId = id}
            /\ \A k \in 1..(Len(resp'.list) - 1) : resp'.list[k] > resp'.list[k + 1]
            /\ UNCHANGED <<documents, versions, pc, local>>

\* getVersions has returned the third and the first version, in this order,
\* of a document, the second being of another document.
C16_witness ==
  /\ resp = [Response(200, "versions") EXCEPT !.list = <<3, 1>>]
  /\ Len(versions) = 3 /\ versions[2].documentId # versions[1].documentId

\* C17 as stated: every call with a malformed document id or version id
\* (and a body that passes the validation) is answered NotFound and changes
\* nothing.
C17_original ==
  [][\A p \in Procs, u \in Users :
       /\ (getDocumentById(p, u, 0) \/ getVersions(p, u, 0)) => Refused(404)
       /\ \A c \in {x \in AllContents : x.type = "string"} :
            /\ \A f \in {x \in AllFlags : x.type = "boolean"} :
                 createVersion(p, u, 0, c, f) => Refused(404)
            /\ (updateCurrentVersion(p, u, 0, c) \/ updateVersionContent(p, u, 0, c))
                 => Refused(404)
       /\ \A name \in {x \in AllNames : x.type = "string" /\ trim(x.val) # ""} :
            updateDocumentName(p, u, 0, name) => Refused(404)
       /\ \A id \in DocIdInputs, vid \in VersionIdInputs :
            ((id = 0 \/ vid = 0)
               /\ (getVersionById(p, u, id, vid) \/ mergeVersion(p, u, id, vid)))
              => Refused(404)
    ]_vars

\* C17, amended: in every state, every call with a malformed document id or
\* version id, whatever its caller and its other parameters, is answered
\* with a Validation error (400) and changes nothing.
C17_malformedId ==
  \A p \in Procs, u \in Users :
    /\ ~ENABLED ((getDocumentById(p, u, 0) \/ getVersions(p, u, 0)) /\ ~Refused(400))
    /\ \A c \in AllContents :
         /\ \A f \in AllFlags : ~ENABLED (createVersion(p, u, 0, c, f) /\ ~Refused(400))
         /\ ~ENABLED
               /\ updateCurrentVersion(p, u, 0, c) \/ updateVersionContent(p, u, 0, c)
               /\ ~Refused(400)
    /\ \A name \in AllNames : ~ENABLED (updateDocumentName(p, u, 0, name) /\ ~Refused(400))
    /\ \A id \in DocIdInputs, vid \in VersionIdInputs :
         (id = 0 \/ vid = 0) =>
           ~ENABLED
              /\ getVersionById(p, u, id, vid) \/ mergeVersion(p, u, id, vid)
              /\ ~Refused(400)

\* A call with a malformed id has been refused while documents and versions
\* are there.
C17_witness ==
  /\ resp = Response(400, "Invalid ID(s)")
  /\ Len(documents) = 2 /\ Len(versions) = 3

C19_sameEmptyDiff ==
  \A p \in Procs :
    (pc[p] = "createVersion_save" /\ local[p].loaded = local[p].content) =>
      versions[Len(versions)].diff = versions[1].diff

\* C20: the existence of the document, then its ownership, then the
\* operation: a caller who does not own the document is answered
\* AccessDenied by getVersionById and by mergeVersion whether or not the
\* version named (a well-formed id) exists, and by updateVersionContent on
\* a version of the document.
C20_uniformOrder ==
  [][\A p \in Procs, u \in Users, id \in 1..Len(documents) :
       documents[id].userId # u =>
         /\ \A vid \in 1..MaxVersions :
              /\ getVersionById(p, u, id, vid) => Denied
              /\ (mergeVersion(p, u, id, vid) /\ pc'[p] = "idle") => Denied
         /\ \A vid \in 1..Len(versions), c \in {StringValue(s) : s \in Strings} :
              (versions[vid].documentId = id /\ updateVersionContent(p, u, vid, c))
                => Denied
    ]_vars

\* C21: in every state in which no call is in flight, the content of each
\* document is the stored content of the version of the document created
\* last.
C21_contentIsNewest ==
  Idle =>
    \A id \in 1..Len(documents) :
      LET S == {j \in 1..Len(versions) : versions[j].documentId = id}
      IN S # {} => documents[id].content = versions[Newest(S)].content

=============================================================================
